---------------------------- MODULE Spec2Model ----------------------------
(***************************************************************************)
(* A model of the chat client's conversation session: the ChatInterface    *)
(* component (src/unnamed/part_002) with its two hooks, useConversations   *)
(* (the registry and the selection) and useChat (the message log of the    *)
(* selected conversation), the router's conversation id, localStorage and  *)
(* the ChatService singleton.                                              *)
(*                                                                         *)
(* React semantics kept by the model:                                      *)
(*  - an event handler runs on the values of the last committed render;    *)
(*    the state updates it queues are applied together in one render;      *)
(*  - after a render the effects whose dependencies changed run in hook    *)
(*    order, on that render's values; the updates they queue give the      *)
(*    next render, until no update is left (operator Render);              *)
(*  - sendMessage is a useCallback whose dependencies change only with     *)
(*    the messages array, so it keeps the conversationId of the render     *)
(*    in which messages last changed, and its getNextMessageId reads       *)
(*    that render's messages.                                              *)
(* A handler together with the renders and effects it causes is one        *)
(* action, so the states of the model are the quiescent states of the UI.  *)
(*                                                                         *)
(* Texts are sequences of one-character strings.  A timestamp is kept as   *)
(* its kind only ("Date" in memory, "ISOString" once it went through       *)
(* JSON); createdAt and updatedAt of a conversation are not modelled.      *)
(***************************************************************************)
EXTENDS Integers, Sequences, FiniteSets, TLC

(***************************************************************************)
(* Bounds of the model.                                                    *)
(***************************************************************************)
\* conversation ids ever generated in one behaviour
MaxConversations == 3
\* the longest message log a send may produce
MaxLogLen == 4
\* Responder calls in flight at once
MaxPending == 2
\* the Math.random() outcomes explored: indexes 0..MaxRandomIndex of responses
MaxRandomIndex == 0
\* events (user actions, resolved calls, address changes, page loads) in one behaviour
MaxEvents == 7
\* events in one behaviour when the hooks are used directly
MaxHookEvents == 6

\* Date.now() runs over 0..MaxClock
MaxClock == 1

\* the suffix Math.random().toString(36).substr(2, 9) runs over 0..MaxSuffix
MaxSuffix == 1

\* the page loaded on any localStorage: the conversations that have records
MaxStoredConversations == 2

\* calls of the functions of useConversations, when it is used directly
MaxRegistryEvents == 2

\* AuthService: calls waiting on their delay at once, and events in a run
MaxAuthCalls == 2
MaxAuthEvents == 5

(***************************************************************************)
(* Program constants.                                                      *)
(***************************************************************************)
\* null: no conversation selected, no id in the address
NoId == 0
\* firstMessage.substring(0, 50)
TitleLimit == 50

\* password.length < 6 is rejected
MinPasswordLength == 6
\* lastMessage.substring(0, 100)
PreviewLimit == 100

GreetingText ==
  <<"H","e","l","l","o","!"," ","I","'","m"," ","y","o","u","r"," ","A","I"," ","a","s","s",
    "i","s","t","a","n","t","."," ","H","o","w"," ","c","a","n"," ","I"," ","h","e","l","p",
    " ","y","o","u"," ","t","o","d","a","y","?">>

ErrorMessageText ==
  <<"S","o","r","r","y",","," ","I"," ","e","n","c","o","u","n","t","e","r","e","d"," ","a",
    "n"," ","e","r","r","o","r"," ","p","r","o","c","e","s","s","i","n","g"," ","y","o","u",
    "r"," ","m","e","s","s","a","g","e","."," ","P","l","e","a","s","e"," ","t","r","y"," ",
    "a","g","a","i","n",".">>

Response0 ==
  <<"I"," ","u","n","d","e","r","s","t","a","n","d"," ","y","o","u","r"," ","m","e","s","s",
    "a","g","e","."," ","H","o","w"," ","c","a","n"," ","I"," ","h","e","l","p"," ","y","o",
    "u"," ","f","u","r","t","h","e","r","?">>

Response1 ==
  <<"T","h","a","t","'","s"," ","a","n"," ","i","n","t","e","r","e","s","t","i","n","g"," ",
    "p","o","i","n","t","."," ","L","e","t"," ","m","e"," ","t","h","i","n","k"," ","a","b",
    "o","u","t"," ","t","h","a","t",".">>

Response2 ==
  <<"I","'","m"," ","h","e","r","e"," ","t","o"," ","a","s","s","i","s","t"," ","y","o","u",
    "."," ","W","h","a","t"," ","w","o","u","l","d"," ","y","o","u"," ","l","i","k","e"," ",
    "t","o"," ","k","n","o","w","?">>

Response3 ==
  <<"T","h","a","n","k"," ","y","o","u"," ","f","o","r"," ","s","h","a","r","i","n","g"," ",
    "t","h","a","t"," ","w","i","t","h"," ","m","e","."," ","I","s"," ","t","h","e","r","e",
    " ","a","n","y","t","h","i","n","g"," ","s","p","e","c","i","f","i","c"," ","y","o","u",
    "'","d"," ","l","i","k","e"," ","h","e","l","p"," ","w","i","t","h","?">>

Response4 ==
  <<"I"," ","a","p","p","r","e","c","i","a","t","e"," ","y","o","u","r"," ","i","n","p","u",
    "t","."," ","H","o","w"," ","c","a","n"," ","I"," ","b","e","s","t"," ","s","u","p","p",
    "o","r","t"," ","y","o","u"," ","t","o","d","a","y","?">>

HelpResponse ==
  <<"I","'","m"," ","h","e","r","e"," ","t","o"," ","h","e","l","p","!"," ","W","h","a","t",
    " ","s","p","e","c","i","f","i","c"," ","a","s","s","i","s","t","a","n","c","e"," ","d",
    "o"," ","y","o","u"," ","n","e","e","d","?">>

ThankResponse ==
  <<"Y","o","u","'","r","e"," ","w","e","l","c","o","m","e","!"," ","I","'","m"," ","g","l",
    "a","d"," ","I"," ","c","o","u","l","d"," ","h","e","l","p","."," ","I","s"," ","t","h",
    "e","r","e"," ","a","n","y","t","h","i","n","g"," ","e","l","s","e"," ","y","o","u","'",
    "d"," ","l","i","k","e"," ","t","o"," ","d","i","s","c","u","s","s","?">>

NewConversationTitle ==
  <<"N","e","w"," ","c","o","n","v","e","r","s","a","t","i","o","n">>

EmptyConversationText ==
  <<"E","m","p","t","y"," ","c","o","n","v","e","r","s","a","t","i","o","n">>

PromptDebug ==
  <<"H","e","l","p"," ","m","e"," ","d","e","b","u","g"," ","t","h","i","s"," ","J","a","v",
    "a","S","c","r","i","p","t"," ","c","o","d","e">>

PromptTrip ==
  <<"P","l","a","n"," ","a"," ","7","-","d","a","y"," ","t","r","i","p"," ","t","o"," ","J",
    "a","p","a","n">>

HelpWord ==
  <<"h","e","l","p">>

ThankWord ==
  <<"t","h","a","n","k">>

Ellipsis ==
  <<".",".",".">>

UpperChars ==
  <<"A","B","C","D","E","F","G","H","I","J","K","L","M","N","O","P","Q","R","S","T","U","V",
    "W","X","Y","Z">>

LowerChars ==
  <<"a","b","c","d","e","f","g","h","i","j","k","l","m","n","o","p","q","r","s","t","u","v",
    "w","x","y","z">>

(***************************************************************************)
(* Strings.                                                                *)
(***************************************************************************)
\* the characters the regular expression \s matches, among those used here
Whitespace == {" ", "\t", "\n"}

Min2(a, b) == IF a < b THEN a ELSE b

MaxOf(S) == CHOOSE x \in S : \A y \in S : y <= x

\* s.substring(0, n)
substring(s, n) == SubSeq(s, 1, Min2(n, Len(s)))

RECURSIVE trimStart(_)
trimStart(s) ==
  IF s # <<>> /\ Head(s) \in Whitespace THEN trimStart(Tail(s)) ELSE s

RECURSIVE trimEnd(_)
trimEnd(s) ==
  IF s # <<>> /\ s[Len(s)] \in Whitespace
    THEN trimEnd(SubSeq(s, 1, Len(s) - 1))
    ELSE s

\* s.trim()
trim(s) == trimEnd(trimStart(s))

\* s.replace(/\s+/g, ' ')
RECURSIVE collapseWhitespace(_)
collapseWhitespace(s) ==
  IF s = <<>> THEN <<>>
  ELSE IF Head(s) \in Whitespace
    THEN <<" ">> \o collapseWhitespace(trimStart(s))
    ELSE <<Head(s)>> \o collapseWhitespace(Tail(s))

lowerChar(c) ==
  IF \E i \in 1..Len(UpperChars) : UpperChars[i] = c
    THEN LowerChars[CHOOSE i \in 1..Len(UpperChars) : UpperChars[i] = c]
    ELSE c

\* s.toLowerCase()
toLowerCase(s) == [i \in 1..Len(s) |-> lowerChar(s[i])]

\* s.includes(pat)
includes(s, pat) ==
  \E i \in 0..(Len(s) - Len(pat)) : SubSeq(s, i + 1, i + Len(pat)) = pat

(***************************************************************************)
(* Messages (types/Message) and the Responder (ChatService).               *)
(***************************************************************************)
createMessage(id, text, sender) ==
  [id |-> id, text |-> text, sender |-> sender, timestamp |-> "Date"]

defaultInitialMessages == <<createMessage(1, GreetingText, "ai")>>

\* Math.max(...messages.map(m => m.id)) + 1, or 1 for an empty log
getNextMessageId(msgs) ==
  IF Len(msgs) > 0
    THEN MaxOf({msgs[i].id : i \in 1..Len(msgs)}) + 1
    ELSE 1

responses == <<Response0, Response1, Response2, Response3, Response4>>

\* randomIndex is Math.floor(Math.random() * responses.length)
generateAIResponse(userMessage, randomIndex) ==
  IF includes(toLowerCase(userMessage), HelpWord) THEN HelpResponse
  ELSE IF includes(toLowerCase(userMessage), ThankWord) THEN ThankResponse
  ELSE responses[randomIndex + 1]

\* processMessage with a validation that takes no text at all
processMessageRejectsAll(userMessage, messageId, randomIndex) ==
  [ok |-> FALSE, error |-> "Invalid user message provided"]

\* What the promise of processMessage settles with: ok and the assistant
\* message, or not ok and the message of the Error thrown.  An empty string
\* is falsy; createMessage and generateAIResponse do not throw on a string,
\* so the catch block of the try is not entered.
processMessage(userMessage, messageId, randomIndex) ==
  IF userMessage = <<>>
    THEN [ok |-> FALSE, error |-> "Invalid user message provided"]
  ELSE IF messageId \notin Int
    THEN [ok |-> FALSE, error |-> "Invalid message ID provided"]
  ELSE [ok |-> TRUE,
        message |-> createMessage(messageId,
                                  generateAIResponse(userMessage, randomIndex),
                                  "ai")]

(***************************************************************************)
(* localStorage.  A record is kept as the value JSON.parse gives for the   *)
(* text JSON.stringify wrote: a Date becomes its ISO string.               *)
(***************************************************************************)
\* format tells what JSON.parse makes of the text: "array" for the texts the
\* program writes, "undecodable" for a text JSON.parse throws on, "null" for
\* the text null, decodable but no array
Absent == [present |-> FALSE, value |-> <<>>, format |-> "none"]

Stored(v) == [present |-> TRUE, value |-> v, format |-> "array"]

Undecodable == [present |-> TRUE, value |-> <<>>, format |-> "undecodable"]

JsonNull == [present |-> TRUE, value |-> <<>>, format |-> "null"]

\* chatia_sidebar_collapsed, as its text
SidebarRecords == {"absent", "undecodable", "null", "false", "true"}

\* JSON.parse(JSON.stringify(messages))
jsonMessages(msgs) ==
  [i \in 1..Len(msgs) |-> [msgs[i] EXCEPT !.timestamp = "ISOString"]]

\* JSON.parse(JSON.stringify(conversations)): strings and numbers only
jsonConversations(convs) == convs

(***************************************************************************)
(* The conversation registry (useConversations).                           *)
(***************************************************************************)
ConvIds == 1..MaxConversations

\* the address /c/<id> may name any id, also one no conversation has
AddrIds == 1..MaxConversations

IdsOf(convs) == {convs[i].id : i \in 1..Len(convs)}

RECURSIVE filterOut(_, _)
\* conversations.filter(conv => conv.id !== id)
filterOut(convs, id) ==
  IF convs = <<>> THEN <<>>
  ELSE IF Head(convs).id = id
    THEN filterOut(Tail(convs), id)
    ELSE <<Head(convs)>> \o filterOut(Tail(convs), id)

\* conv_<Date.now()>_<random>: the ids come in the order of their creation
generateConversationId(s) == s.generated + 1

\* `conv_${Date.now()}_${Math.random().toString(36).substr(2, 9)}` as a
\* number: one id for each pair of a time and a suffix
conversationIdAt(now, suffix) == now * (MaxSuffix + 1) + suffix + 1

\* generateConversationTitle without the trim() of the 50 characters
generateConversationTitleUntrimmed(firstMessage) ==
  IF firstMessage = <<>> THEN NewConversationTitle
  ELSE LET clean == collapseWhitespace(substring(firstMessage, TitleLimit))
           title == IF Len(firstMessage) > TitleLimit
                      THEN clean \o Ellipsis
                      ELSE clean
       IN IF title = <<>> THEN NewConversationTitle ELSE title

generateConversationTitle(firstMessage) ==
  IF firstMessage = <<>> THEN NewConversationTitle
  ELSE LET cut == trim(substring(firstMessage, TitleLimit))
           clean == collapseWhitespace(cut)
           title == IF Len(firstMessage) > TitleLimit
                      THEN clean \o Ellipsis
                      ELSE clean
       IN IF title = <<>> THEN NewConversationTitle ELSE title

(***************************************************************************)
(* The state the handlers and the effects work on, as one record s:        *)
(*   convs, cur       conversations, currentConversationId (useState)      *)
(*   msgs, typing, err   messages, isTyping, error (useState)              *)
(*   cb               the conversationId the sendMessage callback closes   *)
(*                    over                                                 *)
(*   url              useParams().conversationId, NoId at the root path    *)
(*   lsC, lsCur, lsM  chatia_conversations, chatia_current_conversation,   *)
(*                    chatia_messages_<id>                                 *)
(*   pending          the processMessage calls waiting on their delay,     *)
(*                    oldest first (equal delays end in that order)        *)
(*   processing       chatService.isProcessing                             *)
(*   generated        how many conversation ids were generated             *)
(*   rCur, rUrl       cur and url of the last committed render             *)
(*   dConvs, dMsgs    conversations / messages were set to a new array     *)
(*                    since the last committed render                      *)
(*   mount            the first render is still to come                    *)
(*   lsSb             chatia_sidebar_collapsed                             *)
(*   uncaught         an error was thrown in a render or an effect and     *)
(*                    nothing caught it                                    *)
(***************************************************************************)
NoError == "null"

\* setConversations(prev => [newConversation, ...prev]); setCurrentConversationId(newId)
newConversation(newId, firstMessage) ==
  [id |-> newId,
   title |-> IF firstMessage # <<>>
               THEN generateConversationTitle(firstMessage)
               ELSE NewConversationTitle,
   lastMessage |-> IF firstMessage # <<>>
                     THEN firstMessage
                     ELSE EmptyConversationText,
   messageCount |-> IF firstMessage # <<>> THEN 1 ELSE 0]

createNewConversation(s, firstMessage) ==
  LET newId == generateConversationId(s)
  IN [s EXCEPT !.convs = <<newConversation(newId, firstMessage)>> \o @,
               !.dConvs = TRUE,
               !.cur = newId,
               !.generated = newId]

\* createNewConversationAt putting the new conversation last
createNewConversationAtTail(s, firstMessage, now, suffix) ==
  LET newId == conversationIdAt(now, suffix)
  IN [s EXCEPT !.convs = @ \o <<newConversation(newId, firstMessage)>>,
               !.dConvs = TRUE,
               !.cur = newId]

\* createNewConversation with the id the clock and the random suffix give
createNewConversationAt(s, firstMessage, now, suffix) ==
  LET newId == conversationIdAt(now, suffix)
  IN [s EXCEPT !.convs = <<newConversation(newId, firstMessage)>> \o @,
               !.dConvs = TRUE,
               !.cur = newId]

selectConversation(s, conversationId) == [s EXCEPT !.cur = conversationId]

\* clearAllConversations: when window.confirm answers yes the two records are
\* removed, and the save effects that follow write neither an empty list nor
\* a null id; when it answers no nothing changes
clearAllConversations(s, confirmed) ==
  IF confirmed
    THEN [s EXCEPT !.convs = <<>>, !.dConvs = TRUE, !.cur = NoId,
                   !.lsC = Absent, !.lsCur = NoId]
    ELSE s

\* setIsSidebarCollapsed(prev => !prev), and the save effect that writes
\* JSON.stringify of the new value; !null is true
toggleSidebarCollapse(s) ==
  [s EXCEPT !.lsSb = IF @ = "true" THEN "false" ELSE "true"]

\* deleteConversation clearing the selection whatever is deleted
deleteConversationDeselects(s, conversationId) ==
  [s EXCEPT !.convs = filterOut(s.convs, conversationId),
            !.dConvs = TRUE,
            !.cur = NoId]

\* the callback closes over the render's conversations and currentConversationId
deleteConversation(s, conversationId) ==
  LET remainingConversations == filterOut(s.convs, conversationId)
  IN [s EXCEPT !.convs = remainingConversations,
               !.dConvs = TRUE,
               !.cur = IF conversationId = s.rCur
                         THEN IF Len(remainingConversations) > 0
                                THEN remainingConversations[1].id
                                ELSE NoId
                         ELSE @]

\* updateConversation moving the updated conversation to the head
updateConversationToHead(s, conversationId, fields, updates) ==
  [s EXCEPT !.convs =
              [i \in 1..Len(SelectSeq(@, LAMBDA c : c.id = conversationId)) |->
                 [f \in DOMAIN @[1] |->
                    IF f \in fields
                      THEN updates[f]
                      ELSE SelectSeq(@, LAMBDA c : c.id = conversationId)[i][f]]]
              \o filterOut(@, conversationId),
            !.dConvs = TRUE]

\* prev.map(conv => conv.id === conversationId ? {...conv, ...updates} : conv)
updateConversation(s, conversationId, fields, updates) ==
  [s EXCEPT !.convs =
              [i \in 1..Len(@) |->
                 IF @[i].id = conversationId
                   THEN [f \in DOMAIN @[i] |->
                           IF f \in fields THEN updates[f] ELSE @[i][f]]
                   ELSE @[i]],
            !.dConvs = TRUE]

\* renameConversation without its first line, `if (!newTitle.trim()) return`
renameConversationAnyTitle(s, conversationId, newTitle) ==
  updateConversation(s, conversationId, {"title"}, [title |-> trim(newTitle)])

renameConversation(s, conversationId, newTitle) ==
  IF trim(newTitle) = <<>> THEN s
  ELSE updateConversation(s, conversationId, {"title"},
                          [title |-> trim(newTitle)])

updateConversationWithMessage(s, conversationId, lastMessage, messageCount) ==
  updateConversation(s, conversationId, {"lastMessage", "messageCount"},
                     [lastMessage |-> substring(lastMessage, PreviewLimit),
                      messageCount |-> messageCount])

(***************************************************************************)
(* The message log (useChat).                                              *)
(***************************************************************************)
\* setMessages(defaultInitialMessages); setError(null); setIsTyping(false)
\* its defaultInitialMessages is the array of the first render, which the
\* log of a selected conversation never is: the state changes
clearMessages(s) ==
  [s EXCEPT !.msgs = defaultInitialMessages, !.dMsgs = TRUE,
            !.err = NoError, !.typing = FALSE]

\* clearError: setError(null)
clearError(s) == [s EXCEPT !.err = NoError]

\* addMessage with the id taken from the length of the log
addMessageCounting(s, text, sender) ==
  [s EXCEPT !.msgs = Append(@, createMessage(Len(s.msgs) + 1, text, sender)),
            !.dMsgs = TRUE]

\* addMessage: the id is computed on the messages the callback closes over,
\* the message goes to the end of the log
addMessage(s, text, sender) ==
  [s EXCEPT !.msgs = Append(@, createMessage(getNextMessageId(s.msgs), text, sender)),
            !.dMsgs = TRUE]

\* sendMessage up to its await.  s.msgs and s.cb are still the values the
\* callback closes over: no handler sets them before it calls sendMessage.
\* issuedFor is the conversationId local to handleSendMessage.
sendMessage(s, messageText, issuedFor) ==
  IF trim(messageText) = <<>>
    THEN \* the thrown validation error is caught: error flag and error message
         [s EXCEPT !.err = "Message text is required",
                   !.msgs = Append(@, createMessage(getNextMessageId(s.msgs),
                                                    ErrorMessageText, "ai")),
                   !.dMsgs = TRUE,
                   !.typing = FALSE]
    ELSE LET added == addMessage(s, trim(messageText), "user")
             userMessage == added.msgs[Len(added.msgs)]
             call == [issuedFor |-> issuedFor,
                      conversationId |-> s.cb,
                      userMessage |-> userMessage.text,
                      messageId |-> getNextMessageId(s.msgs),
                      messageCount |-> Len(s.msgs) + 2]
         IN [added EXCEPT !.err = NoError,
                      !.typing = TRUE,
                      !.pending = Append(@, call),
                      !.processing = TRUE]

\* sendMessage after its await, the call having resolved with aiResponse
sendMessageResolved(s, randomIndex) ==
  LET call == Head(s.pending)
      aiResponse == processMessage(call.userMessage, call.messageId,
                                   randomIndex).message
      s1 == [s EXCEPT !.pending = Tail(@),
                      !.processing = FALSE,
                      !.msgs = Append(@, aiResponse),
                      !.dMsgs = TRUE,
                      !.typing = FALSE]
  IN IF call.conversationId # NoId
       THEN updateConversationWithMessage(s1, call.conversationId,
                                          aiResponse.text, call.messageCount)
       ELSE s1

\* sendMessageRejected without the finally block: isTyping stays as it is
sendMessageRejectedNoFinally(s) ==
  LET call == Head(s.pending)
      errorMessage == createMessage(call.messageId, ErrorMessageText, "ai")
  IN [s EXCEPT !.pending = Tail(@),
               !.processing = FALSE,
               !.err = "Failed to process message",
               !.msgs = Append(@, errorMessage),
               !.dMsgs = TRUE]

\* sendMessageRejected taking the user message back from the log
sendMessageRejectedRollingBack(s) ==
  LET call == Head(s.pending)
      errorMessage == createMessage(call.messageId, ErrorMessageText, "ai")
  IN [s EXCEPT !.pending = Tail(@),
               !.processing = FALSE,
               !.err = "Failed to process message",
               !.msgs = Append(SelectSeq(@, LAMBDA m : m.sender # "user"),
                               errorMessage),
               !.dMsgs = TRUE,
               !.typing = FALSE]

\* sendMessage after its await, the call having been rejected: processMessage
\* caught an error of its try block, reset isProcessing and threw anew
sendMessageRejected(s) ==
  LET call == Head(s.pending)
      errorMessage == createMessage(call.messageId, ErrorMessageText, "ai")
  IN [s EXCEPT !.pending = Tail(@),
               !.processing = FALSE,
               !.err = "Failed to process message",
               !.msgs = Append(@, errorMessage),
               !.dMsgs = TRUE,
               !.typing = FALSE]

\* sendMessage after its await: the try block goes on when the promise of
\* processMessage is fulfilled, the catch block runs when it is rejected
sendMessageSettled(s, randomIndex) ==
  LET call == Head(s.pending)
  IN IF processMessage(call.userMessage, call.messageId, randomIndex).ok
       THEN sendMessageResolved(s, randomIndex)
       ELSE sendMessageRejected(s)

(***************************************************************************)
(* The effects, in hook order, on the values r of one render.              *)
(***************************************************************************)
\* useConversations does not return conversationsLoaded: it is undefined
conversationsLoaded == FALSE

\* useConversations, on mount: what it queues
LoadConversationsEffect(r) ==
  [setConvs |-> r.lsC.present /\ r.lsC.format = "array",
   convs |-> r.lsC.value,
   null |-> r.lsC.present /\ r.lsC.format = "null",
   setCur |-> r.lsCur # NoId,
   cur |-> r.lsCur]

SaveConversationsEffect(r) ==
  IF Len(r.convs) > 0 THEN Stored(jsonConversations(r.convs)) ELSE r.lsC

SaveCurrentEffect(r) ==
  IF r.cur # NoId THEN r.cur ELSE r.lsCur

\* LoadMessagesEffect giving an empty log where there is no log to decode
LoadMessagesEffectEmptyOnFailure(r) ==
  IF r.cur # NoId /\ r.lsM[r.cur].present /\ r.lsM[r.cur].format = "array"
    THEN r.lsM[r.cur].value
    ELSE <<>>

\* useChat: the value it passes to setMessages
LoadMessagesEffect(r) ==
  IF r.cur # NoId
    THEN IF r.lsM[r.cur].present /\ r.lsM[r.cur].format = "array"
           THEN r.lsM[r.cur].value
           ELSE defaultInitialMessages
    ELSE defaultInitialMessages

\* setMessages(null): messages.length throws in the render that follows
LoadMessagesUncaught(r) ==
  r.cur # NoId /\ r.lsM[r.cur].present /\ r.lsM[r.cur].format = "null"

SaveMessagesEffect(r) ==
  IF r.cur # NoId /\ Len(r.msgs) > 0
    THEN [r.lsM EXCEPT ![r.cur] = Stored(jsonMessages(r.msgs))]
    ELSE r.lsM

\* UrlEffect without its second branch: the root address clears nothing
UrlEffectKeepsSelection(r) ==
  IF r.url # NoId /\ r.url # r.cur /\ conversationsLoaded
    THEN IF r.url \in IdsOf(r.convs)
           THEN [select |-> TRUE, id |-> r.url, home |-> FALSE]
           ELSE [select |-> FALSE, id |-> NoId, home |-> TRUE]
    ELSE [select |-> FALSE, id |-> NoId, home |-> FALSE]

\* ChatInterface: the selection and the navigation it queues
UrlEffect(r) ==
  IF r.url # NoId /\ r.url # r.cur /\ conversationsLoaded
    THEN IF r.url \in IdsOf(r.convs)
           THEN [select |-> TRUE, id |-> r.url, home |-> FALSE]
           ELSE [select |-> FALSE, id |-> NoId, home |-> TRUE]
  ELSE IF r.url = NoId /\ r.cur # NoId
    THEN [select |-> TRUE, id |-> NoId, home |-> FALSE]
    ELSE [select |-> FALSE, id |-> NoId, home |-> FALSE]

\* one render and its effects
RenderPass(s) ==
  LET dCur == s.mount \/ s.cur # s.rCur
      dUrl == s.mount \/ s.url # s.rUrl
      dConvs == s.mount \/ s.dConvs
      dMsgs == s.mount \/ s.dMsgs
      \* useCallback: sendMessage is made anew when messages changed
      r == [s EXCEPT !.cb = IF dMsgs THEN s.cur ELSE @]
      boot == LoadConversationsEffect(r)
      nav == IF dUrl \/ dCur \/ dConvs
               THEN UrlEffect(r)
               ELSE [select |-> FALSE, id |-> NoId, home |-> FALSE]
      \* setConversations(null), setMessages(null): the render that follows
      \* throws on .length, and what the effects queued is never committed;
      \* what they wrote to localStorage is written
      throws == \/ s.mount /\ boot.null
                \/ dCur /\ LoadMessagesUncaught(r)
  IN [r EXCEPT
        !.lsC = IF dConvs THEN SaveConversationsEffect(r) ELSE @,
        !.lsCur = IF dCur THEN SaveCurrentEffect(r) ELSE @,
        !.lsM = IF dCur \/ dMsgs THEN SaveMessagesEffect(r) ELSE @,
        !.convs = IF ~throws /\ s.mount /\ boot.setConvs THEN boot.convs ELSE @,
        !.dConvs = ~throws /\ s.mount /\ boot.setConvs,
        !.msgs = IF ~throws /\ dCur THEN LoadMessagesEffect(r) ELSE @,
        \* on mount conversationId is null and the load effect passes to
        \* setMessages the array that is the state: messages keeps its
        \* identity; in every later render defaultInitialMessages is a new array
        !.dMsgs = ~throws /\ dCur /\ ~s.mount,
        !.cur = IF throws THEN @
                ELSE IF nav.select THEN nav.id
                ELSE IF s.mount /\ boot.setCur THEN boot.cur
                ELSE @,
        !.url = IF ~throws /\ nav.home THEN NoId ELSE @,
        !.rCur = r.cur,
        !.rUrl = r.url,
        !.mount = FALSE,
        !.uncaught = throws]

Quiescent(s) ==
  ~s.mount /\ ~s.dConvs /\ ~s.dMsgs /\ s.cur = s.rCur /\ s.url = s.rUrl

RECURSIVE Render(_)
\* the renders and effects that follow a batch of updates, to the last one
Render(s) == IF s.uncaught \/ Quiescent(s) THEN s ELSE Render(RenderPass(s))

\* navigate(`/c/${id}`), navigate('/')
navigate(s, conversationId) == [s EXCEPT !.url = conversationId]

(***************************************************************************)
(* The handlers of ChatInterface.                                          *)
(***************************************************************************)
\* handleNewChat creating an empty conversation at once
handleNewChatCreates(s) == createNewConversation(s, <<>>)

handleNewChat(s) == navigate(selectConversation(s, NoId), NoId)

handleSelectConversation(s, id) == navigate(selectConversation(s, id), id)

\* handleSendMessage without the navigation to the new conversation
handleSendMessageNoNavigate(s, messageText) ==
  IF s.rCur = NoId
    THEN sendMessage(createNewConversation(s, messageText), messageText,
                     generateConversationId(s))
    ELSE sendMessage(s, messageText, s.rCur)

handleSendMessage(s, messageText) ==
  IF s.rCur = NoId
    THEN LET newId == generateConversationId(s)
         IN sendMessage(navigate(createNewConversation(s, messageText), newId),
                        messageText, newId)
    ELSE sendMessage(s, messageText, s.rCur)

\* with window.confirm answered yes
handleClearChat(s) ==
  IF s.rCur # NoId
    THEN LET s1 == deleteConversation(s, s.rCur)
             s2 == [s1 EXCEPT !.lsM[s.rCur] = Absent]
         IN navigate(selectConversation(clearMessages(s2), NoId), NoId)
    ELSE s

\* JSON.parse(localStorage.getItem(...) || '[]') outside any try, then .length:
\* the click handler throws on a record that is no JSON or is null. What the
\* handler does otherwise (an alert, the clipboard) is no state of the page,
\* and an error thrown in a handler unmounts nothing: the page stays as it is
handleShareConversationThrows(s, conversationId) ==
  /\ s.lsM[conversationId].present
  /\ s.lsM[conversationId].format # "array"

handleShareConversation(s, conversationId) == s

\* the page is loaded at an address: nothing in memory, localStorage as it is
\* JSON.parse in the initializer of isSidebarCollapsed throws in the first
\* render, before any effect; otherwise its save effect writes the value back
Boot(lsC, lsCur, lsM, lsSb, url, generated) ==
  Render([convs |-> <<>>, cur |-> NoId, msgs |-> defaultInitialMessages,
          typing |-> FALSE, err |-> NoError, cb |-> NoId, url |-> url,
          lsC |-> lsC, lsCur |-> lsCur, lsM |-> lsM,
          lsSb |-> IF lsSb = "absent" THEN "false" ELSE lsSb,
          pending |-> <<>>, processing |-> FALSE, generated |-> generated,
          rCur |-> NoId, rUrl |-> url, dConvs |-> FALSE, dMsgs |-> FALSE,
          mount |-> TRUE, uncaught |-> lsSb = "undecodable"])

(***************************************************************************)
(* The state machine.                                                      *)
(***************************************************************************)
VARIABLES
  conversations,          \* useConversations: conversations
  currentConversationId,  \* useConversations: currentConversationId
  messages,               \* useChat: messages
  isTyping,               \* useChat: isTyping
  error,                  \* useChat: error
  sendConversationId,     \* the conversationId sendMessage closes over
  urlConversationId,      \* useParams().conversationId
  lsConversations,        \* localStorage chatia_conversations
  lsCurrentConversation,  \* localStorage chatia_current_conversation
  lsMessages,             \* localStorage chatia_messages_<id>
  pending,                \* processMessage calls in flight
  chatServiceProcessing,  \* chatService.isProcessing
  generated,              \* conversation ids generated so far
  lsSidebarCollapsed,     \* localStorage chatia_sidebar_collapsed
  uncaught,               \* an error was thrown that nothing caught
  authCurrentUser,        \* authService.currentUser: <<>> for null, or <<user>>
  authIsAuthenticated,    \* authService.isAuthenticated
  authCalls,              \* AuthService calls waiting on their delay
  lsUser,                 \* localStorage chatia_user: <<>> when absent
  lsAuthToken,            \* localStorage chatia_auth_token is present
  lsRegistered,           \* the emails e with a chatia_user_<e> record
  clock,                  \* Date.now() when it was last read
  events,                 \* events so far
  lastOp                  \* the last event: its name, its argument, the
                          \* selection it started from, and the format the
                          \* stored log of the conversation it selects had

vars ==
  <<conversations, currentConversationId, messages, isTyping, error,
    sendConversationId, urlConversationId, lsConversations,
    lsCurrentConversation, lsMessages, pending, chatServiceProcessing,
    generated, lsSidebarCollapsed, uncaught, authCurrentUser,
    authIsAuthenticated, authCalls, lsUser, lsAuthToken, lsRegistered,
    clock, events, lastOp>>

\* the state of the AuthService singleton and its localStorage records
authVars ==
  <<authCurrentUser, authIsAuthenticated, authCalls, lsUser, lsAuthToken,
    lsRegistered>>

\* the state of the chat page and its localStorage records
chatVars ==
  <<conversations, currentConversationId, messages, isTyping, error,
    sendConversationId, urlConversationId, lsConversations,
    lsCurrentConversation, lsMessages, pending, chatServiceProcessing,
    generated, lsSidebarCollapsed, uncaught, clock>>

\* the texts a user sends: two of the home page's prompt cards
UserTexts == {PromptTrip}

\* the titles a user renames to
RenameTitles == {<<"x">>}

Addresses == {NoId} \cup AddrIds

RandomIndexes == 0..MaxRandomIndex

\* the values of the last committed render, nothing queued
Now ==
  [convs |-> conversations, cur |-> currentConversationId, msgs |-> messages,
   typing |-> isTyping, err |-> error, cb |-> sendConversationId,
   url |-> urlConversationId, lsC |-> lsConversations,
   lsCur |-> lsCurrentConversation, lsM |-> lsMessages,
   lsSb |-> lsSidebarCollapsed, pending |-> pending,
   processing |-> chatServiceProcessing, generated |-> generated,
   rCur |-> currentConversationId, rUrl |-> urlConversationId,
   dConvs |-> FALSE, dMsgs |-> FALSE, mount |-> FALSE, uncaught |-> uncaught]

\* the quiescent state n becomes the next state
Commit(n) ==
  /\ conversations' = n.convs
  /\ currentConversationId' = n.cur
  /\ messages' = n.msgs
  /\ isTyping' = n.typing
  /\ error' = n.err
  /\ sendConversationId' = n.cb
  /\ urlConversationId' = n.url
  /\ lsConversations' = n.lsC
  /\ lsCurrentConversation' = n.lsCur
  /\ lsMessages' = n.lsM
  /\ pending' = n.pending
  /\ chatServiceProcessing' = n.processing
  /\ generated' = n.generated
  /\ lsSidebarCollapsed' = n.lsSb
  /\ uncaught' = n.uncaught

\* new AuthService() on the records user, token, registered: nothing in
\* flight, and loadUserFromStorage takes the user when both records are there
AuthConstructed(user, token, registered) ==
  /\ authCurrentUser = (IF user # <<>> /\ token THEN user ELSE <<>>)
  /\ authIsAuthenticated = (user # <<>> /\ token)
  /\ authCalls = <<>>
  /\ lsUser = user
  /\ lsAuthToken = token
  /\ lsRegistered = registered

\* what every step records
\* threw: the handler of the event threw an error that nothing caught
Step(op, arg, now, threw) ==
  /\ events < MaxEvents
  /\ events' = events + 1
  /\ lastOp' = [op |-> op, arg |-> arg, from |-> currentConversationId,
                stored |-> IF currentConversationId' \in ConvIds
                             THEN lsMessages[currentConversationId'].format
                             ELSE "none",
                threw |-> threw]
  /\ clock' = now
  /\ UNCHANGED authVars

\* after an uncaught error nothing is rendered: no event of the page follows
EventThrowing(op, arg, now, threw) ==
  /\ ~uncaught
  /\ Step(op, arg, now, threw)

EventAt(op, arg, now) == EventThrowing(op, arg, now, FALSE)

Event(op, arg) == EventAt(op, arg, clock)

\* the Sidebar's isCollapsed: JSON.parse of the record, as a condition
isSidebarCollapsed == lsSidebarCollapsed = "true"

\* every log there is: the one in memory and the stored ones
AllLogs ==
  {messages} \cup {lsMessages[c].value : c \in {d \in ConvIds : lsMessages[d].present}}

\* isProcessing as rendered: the input box and its button are disabled by it
inputDisabled == isTyping \/ chatServiceProcessing

\* the home page, with its prompt cards, is shown instead of the log
showHomePage == currentConversationId = NoId

Init ==
  \E url \in Addresses :
    LET n == Boot(Absent, NoId, [c \in ConvIds |-> Absent], "absent", url, 0)
    IN /\ conversations = n.convs
       /\ currentConversationId = n.cur
       /\ messages = n.msgs
       /\ isTyping = n.typing
       /\ error = n.err
       /\ sendConversationId = n.cb
       /\ urlConversationId = n.url
       /\ lsConversations = n.lsC
       /\ lsCurrentConversation = n.lsCur
       /\ lsMessages = n.lsM
       /\ pending = n.pending
       /\ chatServiceProcessing = n.processing
       /\ generated = n.generated
       /\ lsSidebarCollapsed = n.lsSb
       /\ uncaught = n.uncaught
       /\ AuthConstructed(<<>>, FALSE, {})
       /\ clock = 0
       /\ events = 0
       /\ lastOp = [op |-> "boot", arg |-> url, from |-> NoId, stored |-> "none",
                    threw |-> FALSE]

\* a message is sent from the input box, or by a click on a prompt card
SendMessage(text) ==
  /\ showHomePage \/ ~inputDisabled
  /\ currentConversationId = NoId => generated < MaxConversations
  /\ Len(pending) < MaxPending
  /\ \A log \in AllLogs : Len(log) + Len(pending) + 2 <= MaxLogLen
  /\ Commit(Render(handleSendMessage(Now, text)))
  /\ Event("send", NoId)

\* the oldest processMessage call settles
ResponderResolves(randomIndex) ==
  /\ pending # <<>>
  /\ Commit(Render(sendMessageSettled(Now, randomIndex)))
  /\ Event("resolve", Head(pending).issuedFor)

\* a click on a conversation of the sidebar
SelectConversation(id) ==
  /\ id \in IdsOf(conversations)
  /\ Commit(Render(handleSelectConversation(Now, id)))
  /\ Event("select", id)

\* the sidebar's New conversation button
NewChat ==
  /\ Commit(Render(handleNewChat(Now)))
  /\ Event("newChat", NoId)

\* Delete in a sidebar entry's menu, confirmed; the menu is rendered only
\* while the sidebar is expanded
DeleteConversation(id) ==
  /\ ~isSidebarCollapsed
  /\ id \in IdsOf(conversations)
  /\ Commit(Render(deleteConversation(Now, id)))
  /\ Event("delete", id)

\* Delete conversation in the header's menu, confirmed
ClearChat ==
  /\ currentConversationId # NoId
  /\ Commit(Render(handleClearChat(Now)))
  /\ Event("clearChat", currentConversationId)

\* a rename completed in the sidebar: started from the entry's menu, its
\* input rendered only while the sidebar is expanded
RenameConversation(id, newTitle) ==
  /\ ~isSidebarCollapsed
  /\ id \in IdsOf(conversations)
  /\ Commit(Render(renameConversation(Now, id, newTitle)))
  /\ Event("rename", id)

\* the address changes from outside (back, forward): NavigateToId
Navigate(url) ==
  /\ url # urlConversationId
  /\ Commit(Render(navigate(Now, url)))
  /\ Event("navigate", url)

\* the page is loaded again, at any address, also after an uncaught error;
\* calls in flight are lost with it
Reload(url) ==
  /\ Commit(Boot(lsConversations, lsCurrentConversation, lsMessages,
                 lsSidebarCollapsed, url, generated))
  /\ Step("boot", url, clock, FALSE)

\* the collapse button of the sidebar
ToggleSidebarCollapse ==
  /\ Commit(Render(toggleSidebarCollapse(Now)))
  /\ Event("toggleSidebar", NoId)

Next ==
  \/ \E text \in UserTexts : SendMessage(text)
  \/ \E randomIndex \in RandomIndexes : ResponderResolves(randomIndex)
  \/ \E id \in ConvIds : SelectConversation(id)
  \/ NewChat
  \/ \E id \in ConvIds : DeleteConversation(id)
  \/ ClearChat
  \/ \E id \in ConvIds, newTitle \in RenameTitles : RenameConversation(id, newTitle)
  \/ \E url \in Addresses : Navigate(url)
  \/ \E url \in Addresses : Reload(url)
  \/ ToggleSidebarCollapse

Spec == Init /\ [][Next]_vars

(***************************************************************************)
(* The hooks used directly: sendMessage called with any text, and a        *)
(* processMessage whose try block throws.                                  *)
(***************************************************************************)
\* the texts sendMessage's validation rejects
InvalidTexts == {<<>>, <<" ">>}

\* sendMessage is called with a text its validation rejects
SendMessageInvalid(text) ==
  /\ \A log \in AllLogs : Len(log) + Len(pending) + 2 <= MaxLogLen
  /\ Commit(Render(sendMessage(Now, text, currentConversationId)))
  /\ Event("sendInvalid", NoId)

\* the oldest processMessage call is rejected
ResponderRejects ==
  /\ pending # <<>>
  /\ Commit(Render(sendMessageRejected(Now)))
  /\ Event("reject", Head(pending).issuedFor)

\* the button of the error banner, shown while error is set
ClearError ==
  /\ error # NoError
  /\ Commit(Render(clearError(Now)))
  /\ Event("clearError", NoId)

NextHook ==
  /\ events < MaxHookEvents
  /\ \/ Next
     \/ \E text \in InvalidTexts : SendMessageInvalid(text)
     \/ ResponderRejects
     \/ ClearError

SpecHook == Init /\ [][NextHook]_vars

(***************************************************************************)
(* The page loaded on any localStorage: records absent, undecodable,       *)
(* decodable but no array, or as the program writes them; and the events   *)
(* that read records.                                                      *)
(***************************************************************************)
\* a conversation as createNewConversation makes it
SeedConversation(id) ==
  [id |-> id, title |-> generateConversationTitle(PromptTrip),
   lastMessage |-> PromptTrip, messageCount |-> 1]

StoredConversationRecords ==
  {Absent, Undecodable, JsonNull}
    \cup {Stored([i \in 1..n |-> SeedConversation(n + 1 - i)]) :
            n \in 0..MaxStoredConversations}

StoredMessageRecords ==
  {Absent, Undecodable, JsonNull, Stored(jsonMessages(defaultInitialMessages))}

InitStorage ==
  \E lsC \in StoredConversationRecords,
     lsCur \in {NoId} \cup (1..MaxStoredConversations),
     lsLogs \in [1..MaxStoredConversations -> StoredMessageRecords],
     lsSb \in SidebarRecords, url \in Addresses :
    LET lsM == [c \in ConvIds |->
                  IF c <= MaxStoredConversations THEN lsLogs[c] ELSE Absent]
        n == Boot(lsC, lsCur, lsM, lsSb, url, MaxConversations)
    IN /\ conversations = n.convs
       /\ currentConversationId = n.cur
       /\ messages = n.msgs
       /\ isTyping = n.typing
       /\ error = n.err
       /\ sendConversationId = n.cb
       /\ urlConversationId = n.url
       /\ lsConversations = n.lsC
       /\ lsCurrentConversation = n.lsCur
       /\ lsMessages = n.lsM
       /\ pending = n.pending
       /\ chatServiceProcessing = n.processing
       /\ generated = n.generated
       /\ lsSidebarCollapsed = n.lsSb
       /\ uncaught = n.uncaught
       /\ AuthConstructed(<<>>, FALSE, {})
       /\ clock = 0
       /\ events = 0
       /\ lastOp = [op |-> "boot", arg |-> url, from |-> NoId,
                    stored |-> IF n.cur # NoId THEN lsM[n.cur].format ELSE "none",
                    threw |-> FALSE]

\* Share in a sidebar entry's menu, rendered only while the sidebar is expanded
ShareConversation(id) ==
  /\ ~isSidebarCollapsed
  /\ id \in IdsOf(conversations)
  /\ Commit(Render(handleShareConversation(Now, id)))
  /\ EventThrowing("share", id, clock, handleShareConversationThrows(Now, id))

NextStorage ==
  \/ \E id \in ConvIds : SelectConversation(id)
  \/ NewChat
  \/ \E id \in ConvIds : ShareConversation(id)
  \/ \E url \in Addresses : Navigate(url)
  \/ \E url \in Addresses : Reload(url)
  \/ ToggleSidebarCollapse

SpecStorage == InitStorage /\ [][NextStorage]_vars

(***************************************************************************)
(* useConversations used directly: its functions called with any           *)
(* argument, its ids made from the clock and the random suffix, its save   *)
(* effects.                                                                *)
(***************************************************************************)
Fill(n) == [i \in 1..n |-> "a"]

\* 55 characters, a run of white space among the first 50
LongSeed == Fill(20) \o <<" ", "\t", "\n">> \o Fill(32)

\* 55 characters, the 50th a space
SeedCutAtSpace == Fill(49) \o <<" ">> \o Fill(5)

\* the first messages createNewConversation is called with
Seeds ==
  {<<>>, <<" ">>, PromptTrip, <<" ", "h", "i">>, Fill(TitleLimit),
   Fill(TitleLimit + 1), LongSeed, SeedCutAtSpace}

\* the titles renameConversation is called with
AnyTitles == {<<>>, <<" ", "\t">>, <<" ", "y", " ">>}

\* the titles updateConversation is called with: it does not trim
UpdateTitles == {<<"x", " ">>}

\* the texts and counts updateConversationWithMessage is called with: a
\* text longer than the preview
LastMessages == {[i \in 1..(PreviewLimit + 20) |-> "b"]}
MessageCounts == {7}

\* every id the clock and the suffix can give
RegistryIds == 1..conversationIdAt(MaxClock, MaxSuffix)

\* the state n after the save effects of useConversations
RegistryCommit(n) ==
  /\ events < MaxRegistryEvents
  /\ conversations' = n.convs
  /\ currentConversationId' = n.cur
  /\ lsConversations' = IF n.dConvs THEN SaveConversationsEffect(n)
                        ELSE n.lsC
  /\ lsCurrentConversation' = IF n.cur # currentConversationId
                                THEN SaveCurrentEffect(n)
                                ELSE n.lsCur
  /\ lsSidebarCollapsed' = n.lsSb
  /\ UNCHANGED <<messages, isTyping, error, sendConversationId,
                 urlConversationId, lsMessages, pending,
                 chatServiceProcessing, generated, uncaught>>

RegistryCreate(firstMessage, now, suffix) ==
  /\ Len(conversations) < MaxConversations
  /\ now >= clock
  /\ RegistryCommit(createNewConversationAt(Now, firstMessage, now, suffix))
  /\ EventAt("create", firstMessage, now)

\* selectConversation, renameConversation, deleteConversation and the two
\* updates take any id: none of them looks the conversation up first
RegistrySelect(id) ==
  /\ RegistryCommit(selectConversation(Now, id))
  /\ Event("select", id)

RegistryRename(id, newTitle) ==
  /\ RegistryCommit(renameConversation(Now, id, newTitle))
  /\ Event(IF trim(newTitle) = <<>> THEN "renameBlank" ELSE "rename", id)

RegistryDelete(id) ==
  /\ RegistryCommit(deleteConversation(Now, id))
  /\ Event("delete", id)

\* updateConversation(id, {title})
RegistryUpdate(id, title) ==
  /\ RegistryCommit(updateConversation(Now, id, {"title"}, [title |-> title]))
  /\ Event("update", id)

RegistryUpdateWithMessage(id, lastMessage, messageCount) ==
  /\ RegistryCommit(updateConversationWithMessage(Now, id, lastMessage, messageCount))
  /\ Event("updateWithMessage", id)

RegistryClearAll(confirmed) ==
  /\ RegistryCommit(clearAllConversations(Now, confirmed))
  /\ Event("clearAll", NoId)

RegistryToggleSidebar ==
  /\ RegistryCommit(toggleSidebarCollapse(Now))
  /\ Event("toggleSidebar", NoId)

NextRegistry ==
  \/ \E firstMessage \in Seeds, now \in 0..MaxClock, suffix \in 0..MaxSuffix :
       RegistryCreate(firstMessage, now, suffix)
  \/ \E id \in RegistryIds : RegistrySelect(id)
  \/ \E id \in RegistryIds, newTitle \in AnyTitles : RegistryRename(id, newTitle)
  \/ \E id \in RegistryIds : RegistryDelete(id)
  \/ \E id \in RegistryIds, title \in UpdateTitles : RegistryUpdate(id, title)
  \/ \E id \in RegistryIds, lastMessage \in LastMessages, messageCount \in MessageCounts :
       RegistryUpdateWithMessage(id, lastMessage, messageCount)
  \/ \E confirmed \in BOOLEAN : RegistryClearAll(confirmed)
  \/ RegistryToggleSidebar

\* useConversations mounted on an empty localStorage
InitRegistry == Init /\ urlConversationId = NoId

SpecRegistry == InitRegistry /\ [][NextRegistry]_vars

(***************************************************************************)
(* AuthService, the singleton of services/AuthService.js.  A user is kept  *)
(* by its id (the string of Date.now(), or undefined), its email, its name *)
(* and whether it carries updatedAt; avatar and the dates are left out.    *)
(* currentUser and the chatia_user record are <<>> for null and absent,    *)
(* <<user>> otherwise.  A method that awaits its delay is a call in        *)
(* authCalls from its invocation to the end of the delay; the delays       *)
(* differ, so the calls in flight end in any order.  The methods work on   *)
(* one record a:                                                           *)
(*   user, auth           currentUser, isAuthenticated                     *)
(*   lsUser, lsToken      chatia_user, chatia_auth_token                   *)
(*   registered           the emails with a chatia_user_<email> record     *)
(***************************************************************************)
AuthNow ==
  [user |-> authCurrentUser, auth |-> authIsAuthenticated,
   lsUser |-> lsUser, lsToken |-> lsAuthToken, registered |-> lsRegistered]

\* [^\s@]+ matches the whole of s
plainPart(s) ==
  /\ s # <<>>
  /\ \A i \in 1..Len(s) : s[i] \notin Whitespace \cup {"@"}

\* /^[^\s@]+@[^\s@]+\.[^\s@]+$/.test(email)
emailPatternTest(email) ==
  \E i, j \in 1..Len(email) :
    /\ i < j
    /\ email[i] = "@" /\ email[j] = "."
    /\ plainPart(SubSeq(email, 1, i - 1))
    /\ plainPart(SubSeq(email, i + 1, j - 1))
    /\ plainPart(SubSeq(email, j + 1, Len(email)))

\* email.split('@')[0]
beforeAt(email) ==
  LET ats == {i \in 1..Len(email) : email[i] = "@"}
  IN IF ats = {} THEN email
     ELSE SubSeq(email, 1, (CHOOSE i \in ats : \A k \in ats : i <= k) - 1)

\* login after its delay: a throw leaves everything as it is
login(a, email, password) ==
  IF email = <<>> \/ password = <<>> THEN a
  ELSE IF Len(password) < MinPasswordLength THEN a
  ELSE LET user == [id |-> "Date.now", email |-> email,
                    name |-> beforeAt(email), updated |-> FALSE]
       IN [a EXCEPT !.user = <<user>>, !.auth = TRUE,
                    !.lsUser = <<user>>, !.lsToken = TRUE]

\* register after its delay
register(a, userData) ==
  IF \/ userData.email = <<>> \/ userData.password = <<>>
     \/ userData.confirmPassword = <<>> \/ userData.name = <<>> THEN a
  ELSE IF userData.password # userData.confirmPassword THEN a
  ELSE IF Len(userData.password) < MinPasswordLength THEN a
  ELSE IF ~emailPatternTest(userData.email) THEN a
  ELSE IF userData.email \in a.registered THEN a
  ELSE LET user == [id |-> "Date.now", email |-> userData.email,
                    name |-> userData.name, updated |-> FALSE]
       IN [a EXCEPT !.user = <<user>>, !.auth = TRUE,
                    !.lsUser = <<user>>, !.lsToken = TRUE,
                    !.registered = @ \cup {userData.email}]

\* updateProfile after its delay: {...this.currentUser, name, email, ...} is
\* built on the currentUser of that moment, and spreading null gives nothing
updateProfileAfterDelay(a, profileData) ==
  IF profileData.name = <<>> \/ profileData.email = <<>> THEN a
  ELSE IF ~emailPatternTest(profileData.email) THEN a
  ELSE LET updatedUser ==
             [id |-> IF a.user = <<>> THEN "undefined" ELSE a.user[1].id,
              email |-> profileData.email,
              name |-> profileData.name,
              updated |-> TRUE]
       IN [a EXCEPT !.user = <<updatedUser>>, !.lsUser = <<updatedUser>>]

\* changePassword after its delay: it validates and changes nothing
changePasswordAfterDelay(a, currentPassword, newPassword) ==
  IF currentPassword = <<>> \/ newPassword = <<>> THEN a
  ELSE IF Len(newPassword) < MinPasswordLength THEN a
  ELSE a

logout(a) ==
  [a EXCEPT !.user = <<>>, !.auth = FALSE, !.lsUser = <<>>, !.lsToken = FALSE]

ValidEmail == <<"a", "@", "b", ".", "c">>
OtherEmail == <<"d", "@", "b", ".", "c">>
InvalidEmail == <<"a", "@", "b">>

AuthCall(op, email, password, confirmPassword, name) ==
  [op |-> op, email |-> email, password |-> password,
   confirmPassword |-> confirmPassword, name |-> name]

\* what the forms submit: accepted values and one value for each rejection
LoginInputs ==
  {AuthCall("login", ValidEmail, Fill(MinPasswordLength), <<>>, <<>>),
   AuthCall("login", ValidEmail, Fill(MinPasswordLength - 1), <<>>, <<>>),
   AuthCall("login", <<>>, Fill(MinPasswordLength), <<>>, <<>>)}

RegisterInputs ==
  {AuthCall("register", OtherEmail, Fill(MinPasswordLength), Fill(MinPasswordLength), <<"n">>),
   AuthCall("register", OtherEmail, Fill(MinPasswordLength), Fill(MinPasswordLength + 1), <<"n">>),
   AuthCall("register", InvalidEmail, Fill(MinPasswordLength), Fill(MinPasswordLength), <<"n">>),
   AuthCall("register", OtherEmail, Fill(MinPasswordLength), Fill(MinPasswordLength), <<>>)}

ProfileInputs ==
  {AuthCall("updateProfile", OtherEmail, <<>>, <<>>, <<"m">>),
   AuthCall("updateProfile", InvalidEmail, <<>>, <<>>, <<"m">>),
   AuthCall("updateProfile", OtherEmail, <<>>, <<>>, <<>>)}

\* password is the current password, confirmPassword the new one
PasswordInputs ==
  {AuthCall("changePassword", <<>>, Fill(MinPasswordLength), Fill(MinPasswordLength), <<>>),
   AuthCall("changePassword", <<>>, Fill(MinPasswordLength), Fill(MinPasswordLength - 1), <<>>)}

AuthCommit(a, calls, op) ==
  /\ events < MaxAuthEvents
  /\ events' = events + 1
  /\ lastOp' = [op |-> op, arg |-> NoId, from |-> NoId, stored |-> "none",
                    threw |-> FALSE]
  /\ authCurrentUser' = a.user
  /\ authIsAuthenticated' = a.auth
  /\ lsUser' = a.lsUser
  /\ lsAuthToken' = a.lsToken
  /\ lsRegistered' = a.registered
  /\ authCalls' = calls
  /\ UNCHANGED chatVars

\* login and register start their delay whatever the arguments
AuthLogin(call) ==
  /\ Len(authCalls) < MaxAuthCalls
  /\ AuthCommit(AuthNow, Append(authCalls, call), "login")

AuthRegister(call) ==
  /\ Len(authCalls) < MaxAuthCalls
  /\ AuthCommit(AuthNow, Append(authCalls, call), "register")

\* updateProfile and changePassword throw at once when not authenticated
AuthUpdateProfile(call) ==
  IF ~authIsAuthenticated
    THEN AuthCommit(AuthNow, authCalls, "updateProfileThrows")
    ELSE /\ Len(authCalls) < MaxAuthCalls
         /\ AuthCommit(AuthNow, Append(authCalls, call), "updateProfile")

AuthChangePassword(call) ==
  IF ~authIsAuthenticated
    THEN AuthCommit(AuthNow, authCalls, "changePasswordThrows")
    ELSE /\ Len(authCalls) < MaxAuthCalls
         /\ AuthCommit(AuthNow, Append(authCalls, call), "changePassword")

\* the delay of the i-th call in flight ends and the method runs to its end
AuthDelayEnds(i) ==
  /\ i \in 1..Len(authCalls)
  /\ LET call == authCalls[i]
         rest == SubSeq(authCalls, 1, i - 1) \o SubSeq(authCalls, i + 1, Len(authCalls))
         a == CASE call.op = "login" -> login(AuthNow, call.email, call.password)
                [] call.op = "register" -> register(AuthNow, call)
                [] call.op = "updateProfile" -> updateProfileAfterDelay(AuthNow, call)
                [] call.op = "changePassword" ->
                     changePasswordAfterDelay(AuthNow, call.password, call.confirmPassword)
     IN AuthCommit(a, rest, "settle_" \o call.op)

AuthLogout ==
  /\ AuthCommit(logout(AuthNow), authCalls, "logout")

\* the page is loaded again: a new AuthService on the stored records, the
\* calls in flight lost with the page
AuthReload ==
  /\ AuthCommit([AuthNow EXCEPT
                   !.user = IF lsUser # <<>> /\ lsAuthToken THEN lsUser ELSE <<>>,
                   !.auth = (lsUser # <<>> /\ lsAuthToken)],
                <<>>, "construct")

NextAuth ==
  \/ \E call \in LoginInputs : AuthLogin(call)
  \/ \E call \in RegisterInputs : AuthRegister(call)
  \/ \E call \in ProfileInputs : AuthUpdateProfile(call)
  \/ \E call \in PasswordInputs : AuthChangePassword(call)
  \/ \E i \in 1..MaxAuthCalls : AuthDelayEnds(i)
  \/ AuthLogout
  \/ AuthReload

\* the service constructed on an empty localStorage
InitAuth == Init /\ urlConversationId = NoId

SpecAuth == InitAuth /\ [][NextAuth]_vars

(***************************************************************************)
(* Well-formedness of the model itself.                                    *)
(***************************************************************************)
TypeOK ==
  /\ currentConversationId \in {NoId} \cup ConvIds
  /\ urlConversationId \in Addresses
  /\ sendConversationId = currentConversationId
  /\ \A log \in AllLogs : Len(log) <= MaxLogLen
  /\ Len(pending) <= MaxPending
  /\ generated <= MaxConversations
  /\ events <= MaxEvents

(***************************************************************************)
(* The claims.                                                             *)
(***************************************************************************)
StrictlyIncreasingIds(log) ==
  \A i, j \in 1..Len(log) : i < j => log[i].id < log[j].id

\* C1: in every reachable state the message ids of every log, the one in
\* memory and every stored one, are pairwise distinct and strictly
\* increasing in log order.
C1_MessageIdsStrictlyIncreasing ==
  \A log \in AllLogs : StrictlyIncreasingIds(log)

\* C2: when a call resolves after the selection moved away from the
\* conversation x it was issued for (x still existing), the reply is the
\* last message of x's stored log and no other conversation's stored log
\* changes.
C2_ReplyWrittenToIssuingConversation ==
  [][(/\ lastOp'.op = "resolve"
      /\ pending # <<>>
      /\ Head(pending).issuedFor \in IdsOf(conversations)
      /\ currentConversationId # Head(pending).issuedFor)
     => LET x == Head(pending).issuedFor
        IN /\ \A c \in ConvIds \ {x} : lsMessages'[c] = lsMessages[c]
           /\ lsMessages'[x].present
           /\ Len(lsMessages'[x].value) > 0
           /\ LET reply == lsMessages'[x].value[Len(lsMessages'[x].value)]
              IN /\ reply.sender = "ai"
                 /\ reply.id = Head(pending).messageId]_vars

\* C3: whenever a conversation is selected, a conversation with that id is
\* in the conversations sequence.
C3_SelectedConversationExists ==
  currentConversationId # NoId =>
    currentConversationId \in IdsOf(conversations)

\* C4: in every quiescent state the address names the selected conversation,
\* and is the root path exactly when none is selected.
C4_AddressAgreesWithSelection ==
  urlConversationId = currentConversationId

\* C5: after a boot, the session is in NoSelection when the persisted
\* selection id names no conversation of the loaded sequence, and otherwise
\* has the selection the persisted id gives.
C5_BootSelection ==
  lastOp.op = "boot" =>
    currentConversationId =
      IF /\ lsCurrentConversation # NoId
         /\ lsCurrentConversation \notin IdsOf(conversations)
        THEN NoId
        ELSE lsCurrentConversation

\* C6: after the address changed from outside to /c/<id> with id an existing
\* conversation, that conversation is selected.
C6_NavigateToExistingSelects ==
  (lastOp.op = "navigate" /\ lastOp.arg \in IdsOf(conversations)) =>
    currentConversationId = lastOp.arg

\* C7: after the address changed from outside to /c/<Z> with Z no existing
\* conversation, no conversation is selected and the address is the root.
C7_NavigateToUnknownGoesHome ==
  (/\ lastOp.op = "navigate"
   /\ lastOp.arg # NoId
   /\ lastOp.arg \notin IdsOf(conversations)) =>
    (currentConversationId = NoId /\ urlConversationId = NoId)

\* C8: whenever the address carries no conversation id, no conversation is
\* selected: a selection held in memory never survives the root address.
C8_RootAddressClearsSelection ==
  urlConversationId = NoId => currentConversationId = NoId

\* the address was changed to the root from outside while a conversation
\* was selected, and the selection is gone
C8_Witness ==
  /\ lastOp.op = "navigate"
  /\ lastOp.arg = NoId
  /\ lastOp.from # NoId
  /\ currentConversationId = NoId

\* C9: NewChat ends with no conversation selected and the address at the
\* root, and leaves the conversations sequence as it was.
C9_NewChatClearsSelectionOnly ==
  [][lastOp'.op = "newChat" =>
       /\ currentConversationId' = NoId
       /\ urlConversationId' = NoId
       /\ conversations' = conversations]_vars

\* NewChat was used while a conversation was selected
C9_Witness ==
  /\ lastOp.op = "newChat"
  /\ lastOp.from # NoId
  /\ conversations # <<>>
  /\ currentConversationId = NoId

\* C10: a send from NoSelection puts exactly one new conversation at the
\* head of the sequence, selects it and sets the address to it, with the
\* Responder call still in flight; a send from Selected(id) leaves the
\* sequence as it was.
C10_FirstSendCreatesAndSelects ==
  [][lastOp'.op = "send" =>
       IF currentConversationId = NoId
         THEN /\ Len(conversations') = Len(conversations) + 1
              /\ Tail(conversations') = conversations
              /\ currentConversationId' = Head(conversations').id
              /\ urlConversationId' = Head(conversations').id
              /\ Len(pending') = Len(pending) + 1
              /\ pending'[Len(pending')].issuedFor = Head(conversations').id
         ELSE conversations' = conversations]_vars

\* a first message was sent from NoSelection and its call is in flight
C10_Witness ==
  /\ lastOp.op = "send"
  /\ lastOp.from = NoId
  /\ currentConversationId # NoId
  /\ currentConversationId = urlConversationId
  /\ pending # <<>>
  /\ pending[Len(pending)].issuedFor = currentConversationId

\* C11: starting with no conversations, once the first message was sent and
\* its call resolved, the new conversation's log is the user message with
\* id 1 followed by an assistant message with id 2, and its messageCount
\* is 2.
C11_FirstSendLogAndCount ==
  (events = 2 /\ lastOp.op = "resolve") =>
    /\ Len(conversations) = 1
    /\ LET c == Head(conversations)
           log == lsMessages[c.id]
       IN /\ log.present
          /\ Len(log.value) = 2
          /\ log.value[1].sender = "user"
          /\ log.value[1].id = 1
          /\ log.value[2].sender = "ai"
          /\ log.value[2].id = 2
          /\ messages = [i \in 1..2 |-> [log.value[i] EXCEPT !.timestamp = "Date"]]
          /\ c.messageCount = 2

\* the stored log of conversation id, empty when there is no record
StoredLog(ls, id) == IF ls[id].present THEN ls[id].value ELSE <<>>

\* C12: when the call of a send made from Selected(x) resolves, x still
\* existing, the stored log of x holds the log of before the send, then the
\* user message, then the reply: two messages more; and x's registry entry
\* has messageCount equal to the log length before the send plus 2 and a
\* preview equal to the first 100 characters of the reply text.
C12_SelectedSendGrowsLogByTwo ==
  [][(/\ lastOp'.op = "resolve"
      /\ pending # <<>>
      /\ Head(pending).conversationId # NoId
      /\ Head(pending).issuedFor \in IdsOf(conversations))
     => LET call == Head(pending)
            x == call.issuedFor
            log == StoredLog(lsMessages', x)
            n == call.messageCount
        IN /\ Len(log) = n
           /\ log[n - 1].sender = "user"
           /\ log[n - 1].text = call.userMessage
           /\ log[n].sender = "ai"
           /\ log[n].id = call.messageId
           /\ \E i \in 1..Len(conversations') :
                /\ conversations'[i].id = x
                /\ conversations'[i].messageCount = n
                /\ conversations'[i].lastMessage = substring(log[n].text, PreviewLimit)]_vars

\* the calls in flight that were issued for conversation id
InFlightFor(id) == {i \in 1..Len(pending) : pending[i].issuedFor = id}

\* C13: in every reachable state, for every conversation, messageCount equals
\* the length of the conversation's stored log when no send is in flight for
\* it, and differs from it by no more than the two messages of one send
\* when one is.
C13_MessageCountTracksLog ==
  \A i \in 1..Len(conversations) :
    LET c == conversations[i]
        n == Len(StoredLog(lsMessages, c.id))
    IN IF InFlightFor(c.id) = {}
         THEN c.messageCount = n
         ELSE c.messageCount - n \in -2..2

C15_TypingClearedWhenSettled ==
  [][/\ lastOp'.op \in {"resolve", "reject", "sendInvalid"} => isTyping' = FALSE
     /\ pending' = <<>> => isTyping' = FALSE]_vars

\* a call was rejected while the typing indicator was shown, and it is off
C15_Witness ==
  /\ lastOp.op = "reject"
  /\ lastOp.arg = currentConversationId
  /\ messages[Len(messages)].text = ErrorMessageText
  /\ error # NoError
  /\ pending = <<>>
  /\ isTyping = FALSE

\* C16: sendMessage, the function useChat returns, called with an empty or
\* whitespace-only text (the input box never makes that call) changes
\* nothing: the log, the error flag, the typing flag, the conversations and
\* every stored record are after the call what they were before it.
C16_InvalidTextIsNoOp ==
  [][lastOp'.op = "sendInvalid" =>
       /\ messages' = messages
       /\ error' = error
       /\ isTyping' = isTyping
       /\ conversations' = conversations
       /\ currentConversationId' = currentConversationId
       /\ lsConversations' = lsConversations
       /\ lsCurrentConversation' = lsCurrentConversation
       /\ lsMessages' = lsMessages]_vars

\* C17: no two calls in flight were issued for the same conversation: while
\* a send issued for a conversation has not settled, the interface issues
\* no second send for it.
C17_OneSendInFlightPerConversation ==
  \A i, j \in 1..Len(pending) :
    i < j => pending[i].issuedFor # pending[j].issuedFor

\* C18: a step that deletes the current conversation, by the sidebar's
\* delete or by the header's, removes that conversation only, creates none,
\* and leaves selected the first conversation that remains, or none when
\* none remains.
C18_DeleteCurrentSelectsFirstRemaining ==
  [][(/\ lastOp'.op \in {"delete", "clearChat"}
      /\ lastOp'.arg = currentConversationId)
     => /\ conversations' = filterOut(conversations, currentConversationId)
        /\ currentConversationId' =
             IF conversations' # <<>> THEN conversations'[1].id ELSE NoId]_vars

\* C19: after a step that deletes the current conversation, by the
\* sidebar's delete or by the header's, the address names the conversation
\* now selected, or is the root when none is, and does not name the deleted
\* conversation.
C19_AddressFollowsDeletion ==
  [][(/\ lastOp'.op \in {"delete", "clearChat"}
      /\ lastOp'.arg = currentConversationId)
     => /\ urlConversationId' = currentConversationId'
        /\ urlConversationId' # lastOp'.arg]_vars

\* the conversations that were created and are in the sequence no more
Deleted == {id \in ConvIds : id <= generated /\ id \notin IdsOf(conversations)}

\* C20: a deleted conversation has no stored message record, in every
\* state after its deletion, also after a call that was in flight for it
\* has settled.
C20_DeletedHasNoStoredLog ==
  \A id \in Deleted : ~lsMessages[id].present

\* what the load effect of useConversations gives for the stored record
ReloadedConversations ==
  IF lsConversations.present THEN lsConversations.value ELSE <<>>

\* C21: in every state the stored conversations record, loaded again, gives
\* the conversations sequence in memory, in the same order: what was deleted
\* is not in it.
C21_StoredConversationsMatchMemory ==
  ReloadedConversations = jsonConversations(conversations)

\* C22: while a conversation is selected its stored log, loaded again, is
\* the log in memory; and a step that appends a message (the user message
\* of a send, the reply of a call resolved) leaves that message at the end
\* of the stored log of the conversation it belongs to.
C22_AppendsAreStoredUnderTheirConversation ==
  [][/\ currentConversationId' # NoId =>
          StoredLog(lsMessages', currentConversationId') = jsonMessages(messages')
     /\ lastOp'.op = "send" =>
          LET x == pending'[Len(pending')].issuedFor
              log == StoredLog(lsMessages', x)
          IN /\ log # <<>>
             /\ log[Len(log)].sender = "user"
             /\ log[Len(log)].text = pending'[Len(pending')].userMessage
     /\ (lastOp'.op = "resolve" /\ lastOp'.arg \in IdsOf(conversations')) =>
          LET log == StoredLog(lsMessages', lastOp'.arg)
          IN /\ log # <<>>
             /\ log[Len(log)].sender = "ai"
             /\ log[Len(log)].id = Head(pending).messageId]_vars

\* C23: when a conversation is selected, by a click or at a boot, and its
\* stored log is missing or cannot be decoded, the log in memory is the
\* default log, the greeting with id 1 alone, the error flag stays unset and
\* no error escapes.
C23_MissingOrUndecodableLogIsDefault ==
  [][(/\ lastOp'.op \in {"select", "boot"}
      /\ currentConversationId' # NoId
      /\ lastOp'.stored \in {"none", "undecodable"})
     => /\ messages' = defaultInitialMessages
        /\ Len(messages') = 1
        /\ messages'[1].id = 1
        /\ messages'[1].sender = "ai"
        /\ error' = NoError
        /\ ~uncaught']_vars

\* a conversation whose stored log could not be decoded was selected
C23_Witness ==
  /\ lastOp.op = "select"
  /\ lastOp.stored = "undecodable"
  /\ currentConversationId = lastOp.arg
  /\ messages = defaultInitialMessages
  /\ error = NoError
  /\ ~uncaught

\* C24: whatever the stored records hold when they are read (at a boot, at
\* a selection, at a share), no error escapes uncaught.
C24_NoUncaughtFailure ==
  ~uncaught /\ ~lastOp.threw

\* C25: in every reachable state the ids of the conversations in the
\* sequence are pairwise distinct: createNewConversation never gives a new
\* conversation the id of one that is in the sequence, also when two are
\* created in the same millisecond.
C25_ConversationIdsDistinct ==
  \A i, j \in 1..Len(conversations) :
    i < j => conversations[i].id # conversations[j].id

\* C26: createNewConversation puts the new conversation at the head of the
\* sequence, leaves the conversations that were there behind it, as they
\* were and in their order, and makes the new conversation the current one.
C26_CreateInsertsAtHeadAndSelects ==
  [][lastOp'.op = "create" =>
       /\ Len(conversations') = Len(conversations) + 1
       /\ Tail(conversations') = conversations
       /\ Head(conversations') = newConversation(Head(conversations').id, lastOp'.arg)
       /\ currentConversationId' = Head(conversations').id
       /\ lsConversations' = Stored(conversations')
       /\ lsCurrentConversation' = Head(conversations').id]_vars

\* a conversation was created before one that was there, and is current
C26_Witness ==
  /\ lastOp.op = "create"
  /\ Len(conversations) = 2
  /\ conversations[1].id # conversations[2].id
  /\ currentConversationId = conversations[1].id
  /\ lastOp.from = conversations[2].id

\* C27: renameConversation called with a title that is empty or white space
\* only changes nothing: every conversation, the selection and the stored
\* records are what they were.
C27_BlankRenameIsNoOp ==
  [][lastOp'.op = "renameBlank" =>
       /\ conversations' = conversations
       /\ currentConversationId' = currentConversationId
       /\ lsConversations' = lsConversations
       /\ lsCurrentConversation' = lsCurrentConversation
       /\ lsMessages' = lsMessages]_vars

\* a conversation with a title was renamed to a blank title
C27_Witness ==
  /\ lastOp.op = "renameBlank"
  /\ \E i \in 1..Len(conversations) :
       /\ conversations[i].id = lastOp.arg
       /\ conversations[i].title = generateConversationTitle(PromptTrip)

\* C28: a rename to a title that is not blank changes the title of the
\* renamed conversation and nothing else: the selection, the address, the
\* order of the sequence, the other conversations, every messageCount and
\* preview, the log in memory and every stored log are what they were.
C28_RenameChangesTitleOnly ==
  [][lastOp'.op = "rename" =>
       /\ currentConversationId' = currentConversationId
       /\ urlConversationId' = urlConversationId
       /\ Len(conversations') = Len(conversations)
       /\ \A i \in 1..Len(conversations) :
            IF conversations[i].id = lastOp'.arg
              THEN \E newTitle \in RenameTitles \cup AnyTitles :
                     /\ trim(newTitle) # <<>>
                     /\ conversations'[i] =
                          [conversations[i] EXCEPT !.title = trim(newTitle)]
              ELSE conversations'[i] = conversations[i]
       /\ messages' = messages
       /\ lsMessages' = lsMessages
       /\ lsCurrentConversation' = lsCurrentConversation
       /\ lsConversations' = Stored(conversations')
       /\ pending' = pending
       /\ isTyping' = isTyping
       /\ error' = error]_vars

\* the second of two conversations was renamed, a call being in flight
C28_Witness ==
  /\ lastOp.op = "rename"
  /\ Len(conversations) = 2
  /\ conversations[2].id = lastOp.arg
  /\ conversations[2].title = <<"x">>
  /\ conversations[1].title # <<"x">>
  /\ pending # <<>>

\* C29 as stated: the title of a conversation created from a seed is the
\* first 50 characters of the seed with every run of white space made one
\* space, followed by "..." exactly when the seed has more than 50
\* characters; with no seed it is New conversation.
C29_TitleAsStated ==
  [][lastOp'.op = "create" =>
       LET firstMessage == lastOp'.arg
       IN Head(conversations').title =
            IF firstMessage = <<>> THEN NewConversationTitle
            ELSE collapseWhitespace(substring(firstMessage, TitleLimit))
                   \o (IF Len(firstMessage) > TitleLimit THEN Ellipsis ELSE <<>>)]_vars

\* C29 amended: the title is the first 50 characters of the seed, the white
\* space at their two ends removed and every run of white space within made
\* one space, followed by "..." exactly when the seed has more than 50
\* characters; it is New conversation with no seed and when that leaves
\* nothing; a seed of 55 characters gives 50 characters or fewer and "...".
C29_TitleTrimmedCollapsedEllipsis ==
  [][lastOp'.op = "create" =>
       \E firstMessage \in {lastOp'.arg} :
       \E title \in {Head(conversations').title} :
       \E body \in {collapseWhitespace(trim(substring(firstMessage, TitleLimit)))} :
          /\ firstMessage = <<>> => title = NewConversationTitle
          /\ (firstMessage # <<>> /\ Len(firstMessage) > TitleLimit) =>
               title = body \o Ellipsis
          /\ (firstMessage # <<>> /\ Len(firstMessage) <= TitleLimit) =>
               title = IF body = <<>> THEN NewConversationTitle ELSE body
          /\ Len(body) <= TitleLimit
          /\ \A i \in 1..Len(body) :
               body[i] \in Whitespace =>
                 /\ body[i] = " "
                 /\ 1 < i /\ i < Len(body)
                 /\ body[i + 1] \notin Whitespace]_vars

\* a conversation was created from the 55 characters with a run of white
\* space: 20 characters, one space, 27 characters and "..."
C29_Witness ==
  /\ lastOp.op = "create"
  /\ lastOp.arg = LongSeed
  /\ conversations # <<>>
  /\ Head(conversations).title = Fill(20) \o <<" ">> \o Fill(27) \o Ellipsis

\* C30: every call a send leaves in flight has a non-empty text and a
\* numeric id, every settling step appends the assistant's reply under the
\* id of the call, and neither the failure flag nor the failure message of
\* sendMessage ever appears.
C30_ValidCallNeverFails ==
  [][/\ \A i \in 1..Len(pending') :
          pending'[i].userMessage # <<>> /\ pending'[i].messageId \in Nat
     /\ error' # "Failed to process message"
     /\ lastOp'.op = "resolve" =>
          /\ Len(messages') = Len(messages) + 1
          /\ SubSeq(messages', 1, Len(messages)) = messages
          /\ messages'[Len(messages')].id = Head(pending).messageId
          /\ messages'[Len(messages')].sender = "ai"
          /\ messages'[Len(messages')].text # ErrorMessageText
          /\ error' = error]_vars

\* a call made by a valid send has settled with the assistant's reply
C30_Witness ==
  /\ lastOp.op = "resolve"
  /\ error = NoError
  /\ Len(messages) >= 2
  /\ messages[Len(messages)].sender = "ai"
  /\ messages[Len(messages)].text = responses[1]
  /\ messages[Len(messages) - 1].sender = "user"
  /\ messages[Len(messages) - 1].text = PromptTrip

\* C31: one append gives the new message the greatest id of the log plus one,
\* or 1 in an empty log, and puts it at the end.  On a log with the ids 1, 3
\* the id is 4; on every send made within a selected conversation the user
\* message is the last of the log, its id is above every id before it and
\* one above one of them.  (The logs given by hand are examined on the steps
\* taken from the boot.)
C31_AppendTakesMaxIdPlusOne ==
  [][/\ events = 0 =>
          \A ids \in {<<>>, <<1, 3>>, <<3, 1>>, <<1, 2, 2>>, <<2>>} :
          \E log \in {[i \in 1..Len(ids) |-> createMessage(ids[i], PromptTrip, "user")]} :
          \E added \in {addMessage([Now EXCEPT !.msgs = log], PromptDebug, "user").msgs} :
            /\ Len(added) = Len(log) + 1
            /\ SubSeq(added, 1, Len(log)) = log
            /\ added[Len(added)].text = PromptDebug
            /\ added[Len(added)].sender = "user"
            /\ ids = <<>> => added[Len(added)].id = 1
            /\ ids = <<1, 3>> => added[Len(added)].id = 4
            /\ \A i \in 1..Len(ids) : added[Len(added)].id > ids[i]
            /\ ids # <<>> => \E i \in 1..Len(ids) : added[Len(added)].id = ids[i] + 1
     /\ (lastOp'.op = "send" /\ lastOp'.from # NoId) =>
          /\ Len(messages') = Len(messages) + 1
          /\ SubSeq(messages', 1, Len(messages)) = messages
          /\ messages'[Len(messages')].sender = "user"
          /\ \A i \in 1..Len(messages) :
               messages'[Len(messages')].id > messages[i].id
          /\ \E i \in 1..Len(messages) :
               messages'[Len(messages')].id = messages[i].id + 1]_vars

\* a user message was appended to a log with the ids 1, 3: its id is 4, one
\* above the greatest and not one above the length
C31_Witness ==
  /\ lastOp.op = "send" /\ lastOp.from # NoId
  /\ Len(messages) = 3
  /\ messages[1].id = 1 /\ messages[2].id = 3
  /\ messages[3].sender = "user"
  /\ messages[3].id = 4

\* C32: in every quiescent state the stored current-conversation record
\* holds the selected id when a conversation is selected, and holds the id
\* of no conversation when none is selected.
C32_StoredSelectionMatchesMemory ==
  IF currentConversationId # NoId
    THEN lsCurrentConversation = currentConversationId
    ELSE lsCurrentConversation \notin IdsOf(conversations)

\* C33: when the call of a send settles, the busy flag is false and a log,
\* the one on display or a stored one, holds the user message of that send
\* with the assistant message of the call after it: no accepted user message
\* is left without an assistant message following it.
C33_SettledSendIsAnswered ==
  [][lastOp'.op = "resolve" =>
       /\ ~isTyping'
       /\ \E log \in {messages'} \cup
                      {lsMessages'[id].value : id \in IdsOf(conversations') \cap ConvIds} :
            \E i \in 1..Len(log) :
              /\ log[i].sender = "user"
              /\ log[i].text = Head(pending).userMessage
              /\ \E j \in (i + 1)..Len(log) :
                   log[j].sender = "ai" /\ log[j].id = Head(pending).messageId]_vars

\* C34: while a conversation is in the sequence its stored log only grows by
\* appends: the record stays, and the value a step leaves has the value
\* before the step as a prefix.
C34_StoredLogsOnlyGrow ==
  [][\A id \in IdsOf(conversations) \cap IdsOf(conversations') \cap ConvIds :
       lsMessages[id].present =>
         /\ lsMessages'[id].present
         /\ Len(lsMessages'[id].value) >= Len(lsMessages[id].value)
         /\ SubSeq(lsMessages'[id].value, 1, Len(lsMessages[id].value))
              = lsMessages[id].value]_vars

\* C35: in every state in which a call of processMessage issued by
\* sendMessage has not settled, the busy flag isTyping is true.
C35_TypingWhileACallIsInFlight ==
  pending # <<>> => isTyping

\* C36: deleting from the sidebar a conversation that is not the current one
\* removes that conversation and nothing else: the selection and the address
\* stay, the remaining conversations keep their fields and their order, the
\* log on display and the stored logs of the remaining conversations stay.
C36_DeleteOtherRemovesOnlyIt ==
  [][(lastOp'.op = "delete" /\ lastOp'.arg # currentConversationId) =>
       /\ currentConversationId' = currentConversationId
       /\ urlConversationId' = urlConversationId
       /\ lastOp'.arg \notin IdsOf(conversations')
       /\ conversations' =
            SelectSeq(conversations, LAMBDA c : c.id # lastOp'.arg)
       /\ Len(conversations') = Len(conversations) - 1
       /\ messages' = messages
       /\ \A id \in IdsOf(conversations') \cap ConvIds :
            lsMessages'[id] = lsMessages[id]
       /\ lsCurrentConversation' = lsCurrentConversation
       /\ pending' = pending /\ isTyping' = isTyping /\ error' = error]_vars

\* of three conversations the middle one was deleted: the two others are
\* left in their order, the selected one still selected and on display
C36_Witness ==
  /\ lastOp.op = "delete"
  /\ lastOp.arg = 2
  /\ Len(conversations) = 2
  /\ conversations[1].id = 3
  /\ conversations[2].id = 1
  /\ currentConversationId = 3
  /\ lastOp.from = currentConversationId
  /\ urlConversationId = currentConversationId
  /\ lsMessages[currentConversationId].value = messages

\* C38: chatService.isProcessing is true exactly while a call of
\* processMessage is between its validation and its settling.
C38_ProcessingIffACallIsInFlight ==
  chatServiceProcessing <=> pending # <<>>

\* C37: in every state of AuthService, whatever the order of login,
\* register, updateProfile, changePassword and logout and of the ends of
\* their delays, isAuthenticated is true exactly when currentUser is not
\* null, and the chatia_user record exists only while authenticated.
C37_AuthenticatedIffUser ==
  /\ authIsAuthenticated <=> authCurrentUser # <<>>
  /\ lsUser # <<>> => authIsAuthenticated
=============================================================================
